---- MODULE Spec2Model ----
(***************************************************************************)
(* The motorcycle record store of PH_MotorPlate_OCR: the MotorcycleDAL     *)
(* class of src/ph_motorcycle_ocr.py over one MongoDB collection.          *)
(*                                                                         *)
(* The collection is the sequence of its documents in natural (insertion)  *)
(* order; pymongo's insert_one / update_one / delete_one / find_one act on *)
(* the first document that matches the filter.  The server keeps the       *)
(* unique index on plate_number; the network between the client and the    *)
(* server may be down during any call (the input "up" of each call).       *)
(*                                                                         *)
(* Spec      one MotorcycleDAL and its calls, one at a time.               *)
(* SpecConc  two applications on one database, their calls interleaved at  *)
(*           the grain of the single requests they send to the server.     *)
(* SpecStatus  Spec with insertions as add_license makes them (no status   *)
(*           argument).                                                    *)
(* SpecEmptyPlate  Spec with insertions that may carry an empty plate.     *)
(* SpecOcr   get_ocr_result_with_boxes applied to the OCR responses.       *)
(* SpecCam   the camera page: routes, deb_capt, the preview threads and    *)
(*           output/capture.png; SpecCamFair adds that started threads     *)
(*           keep running.                                                 *)
(* SpecGui   one application: OCR results shown and the DB buttons clicked *)
(*           as the page offers them; SpecGuiLate runs the button handlers *)
(*           whatever the page shows.                                      *)
(***************************************************************************)
EXTENDS Integers, Sequences, FiniteSets, TLC

\* ---------------------------------------------------------------- inputs
\* The (plate_number, region) pairs the insertions are drawn from: the three
\* insertions of the demonstration block of src/mongodb_test.py.
Insertions == {<<"PH1234", "Metro Manila">>, <<"PH5678", "Calabarzon">>, <<"PH1234", "Bicol">>}
Plates  == {i[1] : i \in Insertions}
Regions == {i[2] : i \in Insertions}
StatusFields == {"blacklisted", "expired", "violations"}

\* A status argument of insert_motorcycle as the caller writes it: left out,
\* or given as True or False.
FlagArgs == {"omitted", "True", "False"}

\* The status arguments (blacklisted, expired, violations) the insertions are
\* drawn from: none given (the GUI's add_license and the demonstration's
\* first call), violations=True (the demonstration's second call), and
\* calls giving each status as True and as False.
FlagCalls ==
    {<<"omitted", "omitted", "omitted">>, <<"omitted", "omitted", "True">>,
     <<"True", "False", "omitted">>, <<"False", "True", "False">>,
     <<"True", "True", "True">>}

\* The largest number of documents the collection is let grow to.
MaxDocs == 2

VARIABLES
    collection,     \* the documents of db[collection_name], in natural order
    uniqueIndex,    \* the server holds the unique index on plate_number
    dalCollection,  \* self.collection: "unset" before __init__, "coll" or "None"
    last,           \* the last DAL call: its arguments, what it saw, what it returned
    sessions,       \* two running applications, each with its own MotorcycleDAL
    ocr,            \* one call of get_ocr_result_with_boxes: response and result
    cam,            \* the camera page: route, deb_capt, preview threads, capture file
    gui             \* the detected-plate fields and the DB buttons of one application

vars == <<collection, uniqueIndex, dalCollection, last, sessions, ocr, cam, gui>>

\* What the calls of the single DAL leave alone.
others == <<sessions, ocr, cam, gui>>

\* ------------------------------------------------------------- documents
\* motorcycle_doc of insert_motorcycle.
motorcycle_doc(plate_number, region, blacklisted, expired, violations) ==
    [plate_number |-> plate_number, region |-> region,
     blacklisted |-> blacklisted, expired |-> expired, violations |-> violations]

Docs == {motorcycle_doc(i[1], i[2], b, e, v) :
            i \in Insertions, b \in BOOLEAN, e \in BOOLEAN, v \in BOOLEAN}

\* The positions of the documents a {"plate_number": p} filter matches.
Matches(coll, p) == {i \in DOMAIN coll : coll[i].plate_number = p}

FirstMatch(coll, p) == CHOOSE i \in Matches(coll, p) : \A j \in Matches(coll, p) : i <= j

\* Some plate number is held by two documents.
HasDuplicates(coll) ==
    \E i, j \in DOMAIN coll : i # j /\ coll[i].plate_number = coll[j].plate_number

\* --------------------------------------------------------- pymongo calls
\* collection.find_one(filter): the first matching document, or None (<<>>).
find_one(coll, p) ==
    IF Matches(coll, p) = {} THEN <<>> ELSE <<coll[FirstMatch(coll, p)]>>

\* collection.insert_one(doc): the unique index, when the server holds it,
\* rejects a second document with the same plate_number (DuplicateKeyError).
insert_one(coll, idx, doc) ==
    IF idx /\ Matches(coll, doc.plate_number) # {}
    THEN [coll |-> coll, raised |-> "DuplicateKeyError"]
    ELSE [coll |-> Append(coll, doc), raised |-> "none"]

\* The update document taken as a replacement of the stored document (the
\* "$set" operator left out): the fields it does not name are lost.
ApplySet_replaces(doc, upd) ==
    [f \in DOMAIN doc |-> IF f \in DOMAIN upd THEN upd[f]
                          ELSE IF f \in {"plate_number", "region"} THEN "" ELSE FALSE]

\* {"$set": upd} applied to one document: the fields of upd replaced, the rest kept.
ApplySet(doc, upd) ==
    [f \in DOMAIN doc |-> IF f \in DOMAIN upd THEN upd[f] ELSE doc[f]]

\* collection.update_one(filter, {"$set": upd}): no upsert.
update_one(coll, p, upd) ==
    IF Matches(coll, p) = {}
    THEN [coll |-> coll, matched_count |-> 0]
    ELSE [coll |-> [coll EXCEPT ![FirstMatch(coll, p)] = ApplySet(@, upd)],
          matched_count |-> 1]

\* delete_one with an empty filter: the first document goes, whatever its plate.
delete_one_no_filter(coll, p) ==
    IF Matches(coll, p) = {}
    THEN [coll |-> coll, deleted_count |-> 0]
    ELSE [coll |-> Tail(coll), deleted_count |-> 1]

\* collection.delete_one(filter).
delete_one(coll, p) ==
    IF Matches(coll, p) = {}
    THEN [coll |-> coll, deleted_count |-> 0]
    ELSE LET k == FirstMatch(coll, p) IN
         [coll |-> SubSeq(coll, 1, k - 1) \o SubSeq(coll, k + 1, Len(coll)),
          deleted_count |-> 1]

\* collection.create_index("plate_number", unique=True): fails on a
\* collection that already holds two documents with one plate_number.
create_index(coll, idx) == idx \/ ~HasDuplicates(coll)

\* MotorcycleDAL._create_unique_index: an exception of create_index (server
\* not reachable, duplicates already stored) is printed and swallowed.
create_unique_index(selfColl, up, coll, idx) ==
    IF selfColl # "None"
    THEN IF up /\ create_index(coll, idx) THEN TRUE ELSE idx
    ELSE idx

\* MotorcycleDAL.__init__: MongoClient(uri) raises on a URI it cannot use
\* (uriOk = FALSE) and the except branch sets self.collection = None;
\* otherwise the client is built without contacting the server and
\* self.collection is set whatever _create_unique_index met.
MotorcycleDAL_init(uriOk, up, coll, idx) ==
    IF uriOk
    THEN [collection |-> "coll", uniqueIndex |-> create_unique_index("coll", up, coll, idx)]
    ELSE [collection |-> "None", uniqueIndex |-> idx]

\* The value a status parameter of insert_motorcycle is bound to: the
\* signature's default False when the caller leaves the argument out.
BoundFlag(arg) == IF arg = "omitted" THEN FALSE ELSE arg = "True"

\* insert_motorcycle with the status arguments not passed on to the document.
insert_motorcycle_drops_flags(selfColl, up, idx, coll, plate_number, region, blacklisted, expired, violations) ==
    IF selfColl = "None"
    THEN [coll |-> coll, ret |-> "False", branch |-> "no_collection"]
    ELSE IF ~up
    THEN [coll |-> coll, ret |-> "False", branch |-> "error"]
    ELSE LET doc == motorcycle_doc(plate_number, region, FALSE, FALSE, FALSE)
             r == insert_one(coll, idx, doc) IN
         IF r.raised = "DuplicateKeyError"
         THEN [coll |-> coll, ret |-> "False", branch |-> "duplicate"]
         ELSE [coll |-> r.coll, ret |-> "True", branch |-> "inserted"]

\* MotorcycleDAL.insert_motorcycle.
insert_motorcycle(selfColl, up, idx, coll, plate_number, region, blacklisted, expired, violations) ==
    IF selfColl = "None"
    THEN [coll |-> coll, ret |-> "False", branch |-> "no_collection"]
    ELSE IF ~up
    THEN [coll |-> coll, ret |-> "False", branch |-> "error"]
    ELSE LET doc == motorcycle_doc(plate_number, region, BoundFlag(blacklisted),
                                   BoundFlag(expired), BoundFlag(violations))
             r == insert_one(coll, idx, doc) IN
         IF r.raised = "DuplicateKeyError"
         THEN [coll |-> coll, ret |-> "False", branch |-> "duplicate"]
         ELSE [coll |-> r.coll, ret |-> "True", branch |-> "inserted"]

\* _update_status_flag writing "blacklisted" whatever field it was given.
update_status_flag_fixed_field(selfColl, up, coll, plate_number, field_to_update, status) ==
    IF selfColl = "None"
    THEN [coll |-> coll, ret |-> "False", branch |-> "no_collection"]
    ELSE IF ~up
    THEN [coll |-> coll, ret |-> "False", branch |-> "error"]
    ELSE LET result == update_one(coll, plate_number, ("blacklisted" :> status)) IN
         IF result.matched_count > 0
         THEN [coll |-> result.coll, ret |-> "True", branch |-> "updated"]
         ELSE [coll |-> result.coll, ret |-> "False", branch |-> "not_found"]

\* _update_status_flag testing modified_count (documents changed) in place of
\* matched_count.
update_status_flag_modified_count(selfColl, up, coll, plate_number, field_to_update, status) ==
    IF selfColl = "None"
    THEN [coll |-> coll, ret |-> "False", branch |-> "no_collection"]
    ELSE IF ~up
    THEN [coll |-> coll, ret |-> "False", branch |-> "error"]
    ELSE LET result == update_one(coll, plate_number, (field_to_update :> status)) IN
         IF result.coll # coll
         THEN [coll |-> result.coll, ret |-> "True", branch |-> "updated"]
         ELSE [coll |-> result.coll, ret |-> "False", branch |-> "not_found"]

\* _update_status_flag calling update_one with upsert=True: a filter that
\* matches nothing stores a new document.
update_status_flag_upsert(selfColl, up, coll, plate_number, field_to_update, status) ==
    IF selfColl = "None"
    THEN [coll |-> coll, ret |-> "False", branch |-> "no_collection"]
    ELSE IF ~up
    THEN [coll |-> coll, ret |-> "False", branch |-> "error"]
    ELSE LET result == update_one(coll, plate_number, (field_to_update :> status)) IN
         IF result.matched_count > 0
         THEN [coll |-> result.coll, ret |-> "True", branch |-> "updated"]
         ELSE [coll |-> Append(coll, ApplySet(motorcycle_doc(plate_number, "", FALSE, FALSE, FALSE),
                                               (field_to_update :> status))),
               ret |-> "False", branch |-> "not_found"]

\* MotorcycleDAL._update_status_flag.
update_status_flag(selfColl, up, coll, plate_number, field_to_update, status) ==
    IF selfColl = "None"
    THEN [coll |-> coll, ret |-> "False", branch |-> "no_collection"]
    ELSE IF ~up
    THEN [coll |-> coll, ret |-> "False", branch |-> "error"]
    ELSE LET result == update_one(coll, plate_number, (field_to_update :> status)) IN
         IF result.matched_count > 0
         THEN [coll |-> result.coll, ret |-> "True", branch |-> "updated"]
         ELSE [coll |-> result.coll, ret |-> "False", branch |-> "not_found"]

update_blacklisted_status(selfColl, up, coll, plate_number) ==
    update_status_flag(selfColl, up, coll, plate_number, "blacklisted", TRUE)

\* update_expired_status setting the violations status as well.
update_expired_status_sets_two(selfColl, up, coll, plate_number) ==
    LET r == update_status_flag(selfColl, up, coll, plate_number, "expired", TRUE) IN
    update_status_flag(selfColl, up, r.coll, plate_number, "violations", TRUE)

update_expired_status(selfColl, up, coll, plate_number) ==
    update_status_flag(selfColl, up, coll, plate_number, "expired", TRUE)

\* update_violations_status naming the field of update_expired_status.
update_violations_status_sets_expired(selfColl, up, coll, plate_number) ==
    update_status_flag(selfColl, up, coll, plate_number, "expired", TRUE)

update_violations_status(selfColl, up, coll, plate_number) ==
    update_status_flag(selfColl, up, coll, plate_number, "violations", TRUE)

\* statuses_to_clear with one of the three statuses left out.
statuses_to_clear_partial == [blacklisted |-> FALSE, expired |-> FALSE]

\* statuses_to_clear of clear_all_statuses.
statuses_to_clear == [blacklisted |-> FALSE, expired |-> FALSE, violations |-> FALSE]

\* MotorcycleDAL.clear_all_statuses.
clear_all_statuses(selfColl, up, coll, plate_number) ==
    IF selfColl = "None"
    THEN [coll |-> coll, ret |-> "False", branch |-> "no_collection"]
    ELSE IF ~up
    THEN [coll |-> coll, ret |-> "False", branch |-> "error"]
    ELSE LET result == update_one(coll, plate_number, statuses_to_clear) IN
         IF result.matched_count > 0
         THEN [coll |-> result.coll, ret |-> "True", branch |-> "updated"]
         ELSE [coll |-> result.coll, ret |-> "False", branch |-> "not_found"]

\* delete_motorcycle without its except clause: the driver's exception leaves
\* the method.
delete_motorcycle_no_except(selfColl, up, coll, plate_number) ==
    IF selfColl = "None"
    THEN [coll |-> coll, ret |-> "False", branch |-> "no_collection"]
    ELSE IF ~up
    THEN [coll |-> coll, ret |-> "raised", branch |-> "error"]
    ELSE LET result == delete_one(coll, plate_number) IN
         IF result.deleted_count > 0
         THEN [coll |-> result.coll, ret |-> "True", branch |-> "deleted"]
         ELSE [coll |-> result.coll, ret |-> "False", branch |-> "not_found"]

\* MotorcycleDAL.delete_motorcycle.
delete_motorcycle(selfColl, up, coll, plate_number) ==
    IF selfColl = "None"
    THEN [coll |-> coll, ret |-> "False", branch |-> "no_collection"]
    ELSE IF ~up
    THEN [coll |-> coll, ret |-> "False", branch |-> "error"]
    ELSE LET result == delete_one(coll, plate_number) IN
         IF result.deleted_count > 0
         THEN [coll |-> result.coll, ret |-> "True", branch |-> "deleted"]
         ELSE [coll |-> result.coll, ret |-> "False", branch |-> "not_found"]

\* MotorcycleDAL.find_motorcycle: no try block, so an exception of find_one
\* reaches the caller ("raised").
find_motorcycle(selfColl, up, coll, plate_number) ==
    IF selfColl = "None"
    THEN [found |-> <<>>, ret |-> "None", branch |-> "no_collection"]
    ELSE IF ~up
    THEN [found |-> <<>>, ret |-> "raised", branch |-> "error"]
    ELSE LET record == find_one(coll, plate_number) IN
         IF record = <<>>
         THEN [found |-> record, ret |-> "None", branch |-> "absent"]
         ELSE [found |-> record, ret |-> "document", branch |-> "found"]

\* ------------------------------------------------------------ the state
NoCall ==
    [op |-> "none", plate_number |-> "", region |-> "", flags |-> <<>>, field |-> "",
     reached |-> FALSE, indexed |-> FALSE, before |-> <<>>,
     branch |-> "none", ret |-> "none", found |-> <<>>]

\* What a call leaves in last: its arguments (flags are the three status
\* arguments of an insertion as the caller wrote them), reached says that self.collection was set and
\* the server answered during the call, indexed that the server held the
\* unique index, before is the collection as the call found it.
Call(op, plate_number, region, flags, field, up, res, found) ==
    [op |-> op, plate_number |-> plate_number, region |-> region, flags |-> flags,
     field |-> field,
     reached |-> (dalCollection = "coll" /\ up), indexed |-> uniqueIndex,
     before |-> collection, branch |-> res.branch, ret |-> res.ret, found |-> found]

\* A session that has not started, and no OCR call.
NoSession ==
    [dal |-> "unset", addEnabled |-> "", ins |-> <<>>, pc |-> "idle",
     plate_number |-> "", writes |-> <<>>, written |-> {}, obs |-> <<>>]

Sessions == {1, 2}

NoOcr == [pc |-> "none", response |-> "none", blocks |-> <<>>,
          plate_number |-> <<>>, region |-> <<>>, all_locations |-> <<>>,
          error |-> "None"]

\* The largest number of capture_frame_loop threads started in a behaviour.
MaxThreads == 3

Threads == 1..MaxThreads

\* The application as main() leaves it on the route "/": deb_capt False, no
\* preview thread started, no frame in captured_frame_image, no
\* output/capture.png, the camera buttons visible, the page connected.
\* asked is the set of threads that were running at a Capture click or at
\* the disconnect; processed says what on_process_camera_image last ran
\* OCR on.
NoCam ==
    [route |-> "/", deb_capt |-> FALSE,
     threads |-> [t \in Threads |-> "unstarted"],
     src_base64 |-> "", capture_png |-> "absent", capturing |-> FALSE,
     buttons |-> TRUE, connected |-> TRUE,
     asked |-> {}, processed |-> "nothing"]

\* The fields and buttons as main() builds them: both fields empty (text is
\* a sequence of characters, as in the OCR result), the DB controls hidden,
\* every DB button disabled.  blocks are the fragments of the OCR call whose
\* result is shown, issued is the last run of a DB-button handler.
NoGui ==
    [plate |-> <<>>, region |-> <<>>, visible |-> FALSE,
     add_disabled |-> TRUE, blacklist_disabled |-> TRUE, expire_disabled |-> TRUE,
     violation_disabled |-> TRUE, delete_disabled |-> TRUE,
     error |-> FALSE, blocks |-> <<>>, issued |-> <<>>]

\* The empty database and no DAL yet.
StoreInit ==
    /\ collection = <<>>
    /\ uniqueIndex = FALSE
    /\ dalCollection = "unset"
    /\ last = NoCall

Init ==
    /\ StoreInit
    /\ sessions = [s \in Sessions |-> NoSession]
    /\ ocr = NoOcr
    /\ cam = NoCam
    /\ gui = NoGui

\* main(): dal = MotorcycleDAL(MONGO_URI).
Construct ==
    /\ dalCollection = "unset"
    /\ \E uriOk \in BOOLEAN, up \in BOOLEAN :
         LET dal == MotorcycleDAL_init(uriOk, up, collection, uniqueIndex) IN
         /\ dalCollection' = dal.collection
         /\ uniqueIndex' = dal.uniqueIndex
    /\ UNCHANGED <<collection, last, others>>

InsertFrom(calls, flagCalls) ==
    /\ dalCollection # "unset"
    /\ Len(collection) < MaxDocs
    /\ \E i \in calls, f \in flagCalls, up \in BOOLEAN :
         LET res == insert_motorcycle(dalCollection, up, uniqueIndex, collection,
                                      i[1], i[2], f[1], f[2], f[3]) IN
         /\ collection' = res.coll
         /\ last' = Call("insert", i[1], i[2], f, "", up, res, <<>>)
    /\ UNCHANGED <<uniqueIndex, dalCollection, others>>

InsertMotorcycle == InsertFrom(Insertions, FlagCalls)

UpdateBlacklistedStatus ==
    /\ dalCollection # "unset"
    /\ \E p \in Plates, up \in BOOLEAN :
         LET res == update_blacklisted_status(dalCollection, up, collection, p) IN
         /\ collection' = res.coll
         /\ last' = Call("setFlag", p, "", <<>>, "blacklisted", up, res, <<>>)
    /\ UNCHANGED <<uniqueIndex, dalCollection, others>>

UpdateExpiredStatus ==
    /\ dalCollection # "unset"
    /\ \E p \in Plates, up \in BOOLEAN :
         LET res == update_expired_status(dalCollection, up, collection, p) IN
         /\ collection' = res.coll
         /\ last' = Call("setFlag", p, "", <<>>, "expired", up, res, <<>>)
    /\ UNCHANGED <<uniqueIndex, dalCollection, others>>

UpdateViolationsStatus ==
    /\ dalCollection # "unset"
    /\ \E p \in Plates, up \in BOOLEAN :
         LET res == update_violations_status(dalCollection, up, collection, p) IN
         /\ collection' = res.coll
         /\ last' = Call("setFlag", p, "", <<>>, "violations", up, res, <<>>)
    /\ UNCHANGED <<uniqueIndex, dalCollection, others>>

ClearAllStatuses ==
    /\ dalCollection # "unset"
    /\ \E p \in Plates, up \in BOOLEAN :
         LET res == clear_all_statuses(dalCollection, up, collection, p) IN
         /\ collection' = res.coll
         /\ last' = Call("clear", p, "", <<>>, "", up, res, <<>>)
    /\ UNCHANGED <<uniqueIndex, dalCollection, others>>

DeleteMotorcycle ==
    /\ dalCollection # "unset"
    /\ \E p \in Plates, up \in BOOLEAN :
         LET res == delete_motorcycle(dalCollection, up, collection, p) IN
         /\ collection' = res.coll
         /\ last' = Call("delete", p, "", <<>>, "", up, res, <<>>)
    /\ UNCHANGED <<uniqueIndex, dalCollection, others>>

\* find_motorcycle calling find_one_and_delete: the document found is removed.
FindMotorcycle_removes ==
    /\ dalCollection # "unset"
    /\ \E p \in Plates, up \in BOOLEAN :
         LET res == find_motorcycle(dalCollection, up, collection, p) IN
         /\ last' = Call("find", p, "", <<>>, "", up, res, res.found)
         /\ collection' = IF res.found = <<>> THEN collection
                          ELSE delete_one(collection, p).coll
    /\ UNCHANGED <<uniqueIndex, dalCollection, others>>

FindMotorcycle ==
    /\ dalCollection # "unset"
    /\ \E p \in Plates, up \in BOOLEAN :
         LET res == find_motorcycle(dalCollection, up, collection, p) IN
         last' = Call("find", p, "", <<>>, "", up, res, res.found)
    /\ UNCHANGED <<collection, uniqueIndex, dalCollection, others>>

Next ==
    \/ Construct
    \/ InsertMotorcycle
    \/ UpdateBlacklistedStatus
    \/ UpdateExpiredStatus
    \/ UpdateViolationsStatus
    \/ ClearAllStatuses
    \/ DeleteMotorcycle
    \/ FindMotorcycle

Spec == Init /\ [][Next]_vars

\* ------------------------------------------------- statuses after creation
\* The store as the application fills it: add_license inserts with no status
\* argument, so every status that is True was set by an update_*_status call.
AddLicenseFlags == {<<"omitted", "omitted", "omitted">>}

AddLicense == InsertFrom(Insertions, AddLicenseFlags)

NextStatus ==
    \/ Construct
    \/ AddLicense
    \/ UpdateBlacklistedStatus
    \/ UpdateExpiredStatus
    \/ UpdateViolationsStatus
    \/ ClearAllStatuses
    \/ DeleteMotorcycle
    \/ FindMotorcycle

SpecStatus == Init /\ [][NextStatus]_vars

\* ------------------------------------------------- any plate_number
\* insert_motorcycle takes any str: the calls of Insertions and one with
\* the empty plate_number, region as add_license fills it in.
AnyInsertions == Insertions \cup {<<"", "REGION UNKNOWN">>}

InsertAnyPlate == InsertFrom(AnyInsertions, FlagCalls)

NextEmptyPlate ==
    \/ Construct
    \/ InsertAnyPlate
    \/ DeleteMotorcycle
    \/ FindMotorcycle

SpecEmptyPlate == Init /\ [][NextEmptyPlate]_vars

\* ------------------------------------------------- two applications
\* The update documents clear_all_statuses sends to the server, one per
\* update_one request, in the order sent.
clear_all_statuses_writes_per_field ==
    <<[blacklisted |-> FALSE], [expired |-> FALSE], [violations |-> FALSE]>>

clear_all_statuses_writes == <<statuses_to_clear>>

\* The plate and region both applications have on screen.
Shown == {<<"PH1234", "Metro Manila">>}

ShownPlates == {i[1] : i \in Shown}

RegionsOf(p) == {i[2] : i \in {j \in Shown : j[1] = p}}

\* A session builds its DAL: main(), dal = MotorcycleDAL(MONGO_URI), with
\* the well-formed MONGO_URI of the module.
SessConstruct(s) ==
    /\ sessions[s].dal = "unset"
    /\ \E up \in BOOLEAN :
         LET dal == MotorcycleDAL_init(TRUE, up, collection, uniqueIndex) IN
         /\ sessions' = [sessions EXCEPT ![s].dal = dal.collection]
         /\ uniqueIndex' = dal.uniqueIndex
    /\ UNCHANGED <<collection, dalCollection, last, ocr, cam, gui>>

\* update_db_buttons_state(plate): one find_motorcycle, then Add to DB is
\* enabled exactly when no record came back.  It runs when a plate is shown
\* and again at the end of add_license; an exception of find_one ends the
\* handler with the buttons as they were.
SessCheck(s) ==
    /\ sessions[s].dal # "unset"
    /\ sessions[s].pc \in {"idle", "refresh"}
    /\ \E p \in ShownPlates, up \in BOOLEAN :
         /\ sessions[s].pc = "refresh" => p = sessions[s].plate_number
         /\ LET res == find_motorcycle(sessions[s].dal, up, collection, p) IN
            sessions' = [sessions EXCEPT
                ![s].pc = "idle",
                ![s].obs = <<>>,
                ![s].addEnabled = IF res.ret = "raised" THEN @
                                  ELSE IF res.found # <<>> THEN "" ELSE p]
    /\ UNCHANGED <<collection, uniqueIndex, dalCollection, last, ocr, cam, gui>>

\* add_license: insert_motorcycle(plate, region) for the plate whose Add to
\* DB button is enabled; update_db_buttons_state follows as its own request.
SessInsert(s) ==
    /\ sessions[s].pc = "idle"
    /\ sessions[s].addEnabled # ""
    /\ Len(collection) < MaxDocs
    /\ \E region \in RegionsOf(sessions[s].addEnabled), up \in BOOLEAN :
         LET p == sessions[s].addEnabled
             res == insert_motorcycle(sessions[s].dal, up, uniqueIndex, collection,
                                      p, region, "omitted", "omitted", "omitted")
         IN
         /\ collection' = res.coll
         /\ sessions' = [sessions EXCEPT
                ![s].pc = "refresh",
                ![s].plate_number = p,
                ![s].obs = <<>>,
                ![s].ins = <<[plate_number |-> p, ret |-> res.ret,
                              reached |-> (sessions[s].dal = "coll" /\ up)]>>]
    /\ UNCHANGED <<uniqueIndex, dalCollection, last, ocr, cam, gui>>

\* flag_blacklisted, flag_expired, flag_violations: one update_one request
\* of update_*_status; update_db_buttons_state follows as its own request.
SessSetFlag(s) ==
    /\ sessions[s].pc = "idle"
    /\ sessions[s].dal # "unset"
    /\ \E p \in ShownPlates, f \in StatusFields, up \in BOOLEAN :
         LET res == update_status_flag(sessions[s].dal, up, collection, p, f, TRUE) IN
         /\ collection' = res.coll
         /\ sessions' = [sessions EXCEPT ![s].pc = "refresh",
                                          ![s].plate_number = p,
                                          ![s].obs = <<>>]
    /\ UNCHANGED <<uniqueIndex, dalCollection, last, ocr, cam, gui>>

\* clear_all_statuses is entered: its requests are still to be sent.
SessClearBegin(s) ==
    /\ sessions[s].pc = "idle"
    /\ sessions[s].dal = "coll"
    /\ \E p \in ShownPlates :
         sessions' = [sessions EXCEPT
             ![s].pc = "clearing",
             ![s].plate_number = p,
             ![s].obs = <<>>,
             ![s].writes = clear_all_statuses_writes,
             ![s].written = {}]
    /\ UNCHANGED <<collection, uniqueIndex, dalCollection, last, ocr, cam, gui>>

\* clear_all_statuses sends its next update_one request; an exception, or
\* the last request answered, ends the call.
SessClearWrite(s) ==
    /\ sessions[s].pc = "clearing"
    /\ \E up \in BOOLEAN :
         IF ~up
         THEN /\ sessions' = [sessions EXCEPT ![s].pc = "idle", ![s].writes = <<>>,
                                              ![s].written = {}]
              /\ UNCHANGED collection
         ELSE LET upd == Head(sessions[s].writes)
                  rest == Tail(sessions[s].writes)
                  result == update_one(collection, sessions[s].plate_number, upd)
              IN
              /\ collection' = result.coll
              /\ sessions' = [sessions EXCEPT
                     ![s].pc = IF rest = <<>> THEN "idle" ELSE "clearing",
                     ![s].writes = rest,
                     ![s].written = IF rest = <<>> THEN {}
                                    ELSE IF result.matched_count > 0
                                         THEN @ \cup DOMAIN upd ELSE @]
    /\ UNCHANGED <<uniqueIndex, dalCollection, last, ocr, cam, gui>>

\* The status fields the requests of ws still name.
PendingFields(ws) == UNION {DOMAIN ws[k] : k \in DOMAIN ws}

\* find_motorcycle: one find_one request.  obs keeps what the call returned
\* when another session was inside clear_all_statuses for the same plate:
\* the document, the statuses that call had written and those it had not.
SessFind(s) ==
    /\ sessions[s].pc = "idle"
    /\ sessions[s].dal # "unset"
    /\ \E p \in ShownPlates, up \in BOOLEAN :
         LET res == find_motorcycle(sessions[s].dal, up, collection, p)
             clearing == {w \in Sessions \ {s} :
                            /\ sessions[w].pc = "clearing"
                            /\ sessions[w].plate_number = p}
         IN
         sessions' = [sessions EXCEPT ![s].obs =
             IF res.found # <<>> /\ clearing # {}
             THEN LET w == CHOOSE w \in clearing : TRUE IN
                  <<[doc |-> res.found[1], written |-> sessions[w].written,
                     pending |-> PendingFields(sessions[w].writes)]>>
             ELSE <<>>]
    /\ UNCHANGED <<collection, uniqueIndex, dalCollection, last, ocr, cam, gui>>

NextConc ==
    \E s \in Sessions :
        \/ SessConstruct(s)
        \/ SessCheck(s)
        \/ SessInsert(s)
        \/ SessSetFlag(s)
        \/ SessClearBegin(s)
        \/ SessClearWrite(s)
        \/ SessFind(s)

SpecConc == Init /\ [][NextConc]_vars

\* ------------------------------------------------- OCR field assignment
\* Text is a sequence of characters; a value that may be None is <<>> for
\* None and <<v>> for the value v.
Whitespace == {" "}

Words == {<<"A", " ", "B">>, <<" ", "M", " ">>, <<" ">>}

\* The first point [x, y] of a block's location.
Xs == {0, 1}

Ys == {0, 1}

Blocks == [words : Words, location : Xs \X Ys]

MaxBlocks == 3

BlockLists == UNION {[1..n -> Blocks] : n \in 0..MaxBlocks}

\* What recognize_general_text does: a response with a result, a response
\* whose result is None, or one of the two exceptions caught.
Responses == {"result", "no_result", "ClientRequestException", "Exception"}

NoTextFound == <<"No text found.">>

RECURSIVE lstrip(_)
lstrip(w) ==
    IF w # <<>> /\ Head(w) \in Whitespace THEN lstrip(Tail(w)) ELSE w

RECURSIVE rstrip(_)
rstrip(w) ==
    IF w # <<>> /\ w[Len(w)] \in Whitespace
    THEN rstrip(SubSeq(w, 1, Len(w) - 1)) ELSE w

strip(w) == rstrip(lstrip(w))

\* key=lambda b: b.location[0][1]
sort_key_x(b) == b.location[1]

sort_key(b) == b.location[2]

\* sorted() is stable: a block goes behind every block already placed whose
\* key is not greater.
RECURSIVE InsertSorted(_, _)
InsertSorted(b, s) ==
    IF s = <<>> THEN <<b>>
    ELSE IF sort_key(s[Len(s)]) <= sort_key(b) THEN Append(s, b)
    ELSE Append(InsertSorted(b, SubSeq(s, 1, Len(s) - 1)), s[Len(s)])

RECURSIVE sorted(_)
sorted(blocks) ==
    IF blocks = <<>> THEN <<>>
    ELSE InsertSorted(blocks[Len(blocks)], sorted(SubSeq(blocks, 1, Len(blocks) - 1)))

get_ocr_result_with_boxes(response, words_block_list) ==
    IF response = "ClientRequestException"
    THEN [plate_number |-> <<>>, region |-> <<>>, all_locations |-> <<>>,
          error |-> "API Error"]
    ELSE IF response = "Exception"
    THEN [plate_number |-> <<>>, region |-> <<>>, all_locations |-> <<>>,
          error |-> "An unexpected error occurred"]
    ELSE IF response = "result" /\ words_block_list # <<>>
    THEN LET sorted_blocks == sorted(words_block_list)
             all_locations == [k \in DOMAIN sorted_blocks |-> sorted_blocks[k].location]
             plate_number == IF Len(sorted_blocks) >= 1
                             THEN strip(sorted_blocks[1].words) ELSE <<>>
             region == IF Len(sorted_blocks) >= 2
                       THEN strip(sorted_blocks[2].words) ELSE <<>>
         IN [plate_number |-> <<plate_number>>, region |-> <<region>>,
             all_locations |-> <<all_locations>>, error |-> "None"]
    ELSE [plate_number |-> <<NoTextFound>>, region |-> << <<>> >>,
          all_locations |-> << <<>> >>, error |-> "None"]

\* process_and_display: one call of get_ocr_result_with_boxes on the image;
\* ocr keeps what the provider answered and what the call returned.
ProcessAndDisplay ==
    /\ ocr.pc = "none"
    /\ \E response \in Responses, blocks \in BlockLists :
         /\ response # "result" => blocks = <<>>
         /\ LET r == get_ocr_result_with_boxes(response, blocks) IN
            ocr' = [pc |-> "shown", response |-> response, blocks |-> blocks,
                    plate_number |-> r.plate_number, region |-> r.region,
                    all_locations |-> r.all_locations, error |-> r.error]
    /\ UNCHANGED <<collection, uniqueIndex, dalCollection, last, sessions, cam, gui>>

\* restart_upload_flow: the result is taken off the screen.
RestartUploadFlow ==
    /\ ocr.pc = "shown"
    /\ ocr' = NoOcr
    /\ UNCHANGED <<collection, uniqueIndex, dalCollection, last, sessions, cam, gui>>

NextOcr ==
    \/ ProcessAndDisplay
    \/ RestartUploadFlow

SpecOcr == Init /\ [][NextOcr]_vars

\* ------------------------------------------------- the camera page
Running(threads) == {t \in Threads : threads[t] = "running"}

Unstarted(threads) == {t \in Threads : threads[t] = "unstarted"}

\* threading.Thread(target=capture_frame_loop, daemon=True).start()
start_capture_frame_loop(threads) ==
    LET t == CHOOSE u \in Unstarted(threads) : \A v \in Unstarted(threads) : u <= v
    IN  [threads EXCEPT ![t] = "running"]

\* A Capture click or an entry to the camera page opens a new cycle: a
\* capture.png written before it is no longer the frame of this cycle.
Aged(capture_png) == IF capture_png = "fresh" THEN "stale" ELSE capture_png

\* route_change after page.go(route) or view_pop: the views are rebuilt; on
\* "/camocr" deb_capt is reset and a preview thread is started.
RouteChange ==
    /\ cam.connected
    /\ \E route \in {"/", "/ocr", "/camocr"} :
         /\ (cam.route = "/") # (route = "/")
         /\ IF route = "/camocr"
            THEN /\ Unstarted(cam.threads) # {}
                 /\ cam' = [cam EXCEPT !.route = route, !.deb_capt = FALSE,
                                       !.capture_png = Aged(@),
                                       !.threads = start_capture_frame_loop(@)]
            ELSE cam' = [cam EXCEPT !.route = route]
    /\ UNCHANGED <<collection, uniqueIndex, dalCollection, last, sessions, ocr, gui>>

\* cap.read() yields a frame that differs from the one shown.
NextFrame(src_base64) == IF src_base64 = "frame1" THEN "frame2" ELSE "frame1"

\* One turn of the while loop of capture_frame_loop: with deb_capt set the
\* loop ends and finally releases the camera; otherwise a frame that was
\* read (ret) is put into captured_frame_image.src_base64.
CaptureFrameLoop(t) ==
    /\ cam.threads[t] = "running"
    /\ IF cam.deb_capt
       THEN cam' = [cam EXCEPT !.threads[t] = "released"]
       ELSE \E ret \in BOOLEAN :
              cam' = [cam EXCEPT !.src_base64 = IF ret THEN NextFrame(@) ELSE @]
    /\ UNCHANGED <<collection, uniqueIndex, dalCollection, last, sessions, ocr, gui>>

\* trigger_capture up to its time.sleep(0.1): deb_capt = True.
TriggerCapture ==
    /\ cam.connected /\ cam.route = "/camocr" /\ cam.buttons
    /\ ~cam.capturing
    /\ cam' = [cam EXCEPT !.deb_capt = TRUE, !.capturing = TRUE,
                          !.asked = @ \cup Running(cam.threads)]
    /\ UNCHANGED <<collection, uniqueIndex, dalCollection, last, sessions, ocr, gui>>

\* trigger_capture after the sleep: the frame in src_base64, if there is
\* one, is written to output/capture.png.
TriggerCaptureWrite ==
    /\ cam.capturing
    /\ cam' = [cam EXCEPT !.capturing = FALSE,
                          !.capture_png = IF cam.src_base64 # "" THEN "fresh" ELSE @]
    /\ UNCHANGED <<collection, uniqueIndex, dalCollection, last, sessions, ocr, gui>>

\* The fields and controls as clear_capture and restart_upload_flow leave them.
cleared_fields(g) == [g EXCEPT !.plate = <<>>, !.region = <<>>, !.visible = FALSE]

\* clear_capture (Retake and the camera page's Start over): deb_capt = False,
\* the fields emptied, the camera buttons shown again and, on "/camocr", a
\* preview thread started.
ClearCapture ==
    /\ cam.connected /\ cam.route = "/camocr"
    /\ Unstarted(cam.threads) # {}
    /\ cam' = [cam EXCEPT !.deb_capt = FALSE, !.buttons = TRUE,
                          !.capture_png = Aged(@),
                          !.threads = IF cam.route = "/camocr"
                                      THEN start_capture_frame_loop(@) ELSE @]
    /\ gui' = cleared_fields(gui)
    /\ UNCHANGED <<collection, uniqueIndex, dalCollection, last, sessions, ocr>>

\* on_process_camera_image up to its call of process_and_display: when
\* output/capture.png exists the camera buttons give way to Start over and
\* the file goes to OCR.
OnProcessCameraImage ==
    /\ cam.connected /\ cam.route = "/camocr" /\ cam.buttons
    /\ IF cam.capture_png # "absent"
       THEN cam' = [cam EXCEPT !.buttons = FALSE, !.processed = cam.capture_png]
       ELSE cam' = [cam EXCEPT !.processed = "nothing"]
    /\ UNCHANGED <<collection, uniqueIndex, dalCollection, last, sessions, ocr, gui>>

\* on_disconnect: deb_capt = True; the page sends no further event.
OnDisconnect ==
    /\ cam.connected
    /\ cam' = [cam EXCEPT !.connected = FALSE, !.deb_capt = TRUE,
                          !.asked = @ \cup Running(cam.threads)]
    /\ UNCHANGED <<collection, uniqueIndex, dalCollection, last, sessions, ocr, gui>>

NextCam ==
    \/ RouteChange
    \/ \E t \in Threads : CaptureFrameLoop(t)
    \/ TriggerCapture
    \/ TriggerCaptureWrite
    \/ ClearCapture
    \/ OnProcessCameraImage
    \/ OnDisconnect

SpecCam == Init /\ [][NextCam]_vars

\* Every started thread keeps running its loop and a handler that sleeps
\* wakes up.
SpecCamFair ==
    /\ SpecCam
    /\ \A t \in Threads : WF_vars(CaptureFrameLoop(t))
    /\ WF_vars(TriggerCaptureWrite)

\* ------------------------------------------------- the DB buttons
\* The images given to process_and_display, by what the OCR provider answers:
\* no fragment, an API error, one fragment, a region fragment listed before the
\* plate fragment above it, and one fragment of whitespace.
PlateBlock == [words |-> <<" ", "M", " ">>, location |-> <<0, 0>>]

RegionBlock == [words |-> <<"A", " ", "B">>, location |-> <<0, 1>>]

BlankBlock == [words |-> <<" ">>, location |-> <<0, 0>>]

Images ==
    {<<"result", <<>> >>, <<"ClientRequestException", <<>> >>,
     <<"result", <<PlateBlock>> >>, <<"result", <<RegionBlock, PlateBlock>> >>,
     <<"result", <<BlankBlock>> >>}

\* update_db_buttons_state(plate_number) on the store coll: raised says that
\* find_motorcycle let an exception through, which ends the handler with the
\* buttons as they were.
update_db_buttons_state(g, coll, plate_number, up) ==
    IF plate_number = <<>>
    THEN [gui |-> [g EXCEPT !.visible = FALSE], raised |-> FALSE]
    ELSE LET res == find_motorcycle(dalCollection, up, coll, plate_number) IN
         IF res.ret = "raised" THEN [gui |-> g, raised |-> TRUE]
         ELSE IF res.found # <<>>
         THEN [gui |-> [g EXCEPT !.visible = TRUE,
                                 !.add_disabled = TRUE,
                                 !.delete_disabled = FALSE,
                                 !.blacklist_disabled = res.found[1].blacklisted,
                                 !.expire_disabled = res.found[1].expired,
                                 !.violation_disabled = res.found[1].violations],
               raised |-> FALSE]
         ELSE [gui |-> [g EXCEPT !.visible = TRUE,
                                 !.add_disabled = FALSE,
                                 !.delete_disabled = TRUE,
                                 !.blacklist_disabled = TRUE,
                                 !.expire_disabled = TRUE,
                                 !.violation_disabled = TRUE],
               raised |-> FALSE]

\* process_and_display(image_path, ...): the OCR call, then the error branch
\* or the fields set and update_db_buttons_state.
ProcessAndDisplayOf(images) ==
    /\ dalCollection # "unset"
    /\ ocr.pc = "none"
    /\ \E image \in images, up \in BOOLEAN :
         LET r == get_ocr_result_with_boxes(image[1], image[2])
             shown == [gui EXCEPT !.blocks = image[2], !.issued = <<>>]
         IN
         /\ ocr' = [pc |-> "shown", response |-> image[1], blocks |-> image[2],
                    plate_number |-> r.plate_number, region |-> r.region,
                    all_locations |-> r.all_locations, error |-> r.error]
         /\ IF r.error # "None"
            THEN gui' = [cleared_fields(shown) EXCEPT !.error = TRUE]
            ELSE gui' = update_db_buttons_state(
                            [shown EXCEPT !.error = FALSE,
                                          !.plate = r.plate_number[1],
                                          !.region = r.region[1]],
                            collection, r.plate_number[1], up).gui
    /\ UNCHANGED <<collection, uniqueIndex, dalCollection, last, sessions, cam>>

GuiProcessAndDisplay == ProcessAndDisplayOf(Images)

\* restart_upload_flow and the field part of clear_capture: Start over.
GuiStartOver ==
    /\ ocr.pc = "shown"
    /\ ocr' = NoOcr
    /\ gui' = [cleared_fields(gui) EXCEPT !.issued = <<>>]
    /\ UNCHANGED <<collection, uniqueIndex, dalCollection, last, sessions, cam>>

\* `if plate:` of the five DB-button handlers.
handler_calls_dal_always(plate) == TRUE

handler_calls_dal(plate) == plate # <<>>

\* What a handler leaves in issued: the DAL method, the plate it read from
\* the field, whether the method was called, whether the plate had a record
\* and the status of field was True when it ran, and whether the store changed.
Issued(op, field, called, coll) ==
    <<[op |-> op, plate |-> gui.plate, field |-> field, called |-> called,
       existed |-> (find_one(collection, gui.plate) # <<>>),
       was_set |-> (/\ field # ""
                    /\ find_one(collection, gui.plate) # <<>>
                    /\ find_one(collection, gui.plate)[1][field]),
       changed |-> (coll # collection)]>>

\* A handler that found the field empty, or that ran res on the store: the
\* store after it and the buttons after update_db_buttons_state.
HandlerDone(op, field, res, up2) ==
    IF ~handler_calls_dal(gui.plate)
    THEN /\ collection' = collection
         /\ gui' = [gui EXCEPT !.issued = Issued(op, field, FALSE, collection)]
    ELSE /\ collection' = res.coll
         /\ gui' = [update_db_buttons_state(gui, res.coll, gui.plate, up2).gui
                       EXCEPT !.issued = Issued(op, field, TRUE, res.coll)]

\* A click reaches its handler when the button is shown and enabled; late
\* lets the handler run whatever the page shows by now.
Clickable(disabled, late) ==
    /\ dalCollection # "unset"
    /\ late \/ (gui.visible /\ ~disabled)

\* add_license.
AddLicenseHandler(late) ==
    /\ Clickable(gui.add_disabled, late)
    /\ Len(collection) < MaxDocs
    /\ \E up \in BOOLEAN, up2 \in BOOLEAN :
         HandlerDone("insert", "",
             insert_motorcycle(dalCollection, up, uniqueIndex, collection, gui.plate,
                               IF gui.region # <<>> THEN gui.region
                               ELSE <<"REGION UNKNOWN">>,
                               "omitted", "omitted", "omitted"), up2)
    /\ UNCHANGED <<uniqueIndex, dalCollection, last, sessions, ocr, cam>>

\* flag_blacklisted.
FlagBlacklistedHandler(late) ==
    /\ Clickable(gui.blacklist_disabled, late)
    /\ \E up \in BOOLEAN, up2 \in BOOLEAN :
         HandlerDone("setFlag", "blacklisted",
             update_blacklisted_status(dalCollection, up, collection, gui.plate), up2)
    /\ UNCHANGED <<uniqueIndex, dalCollection, last, sessions, ocr, cam>>

\* flag_expired.
FlagExpiredHandler(late) ==
    /\ Clickable(gui.expire_disabled, late)
    /\ \E up \in BOOLEAN, up2 \in BOOLEAN :
         HandlerDone("setFlag", "expired",
             update_expired_status(dalCollection, up, collection, gui.plate), up2)
    /\ UNCHANGED <<uniqueIndex, dalCollection, last, sessions, ocr, cam>>

\* flag_violations.
FlagViolationsHandler(late) ==
    /\ Clickable(gui.violation_disabled, late)
    /\ \E up \in BOOLEAN, up2 \in BOOLEAN :
         HandlerDone("setFlag", "violations",
             update_violations_status(dalCollection, up, collection, gui.plate), up2)
    /\ UNCHANGED <<uniqueIndex, dalCollection, last, sessions, ocr, cam>>

\* delete_license.
DeleteLicenseHandler(late) ==
    /\ Clickable(gui.delete_disabled, late)
    /\ \E up \in BOOLEAN, up2 \in BOOLEAN :
         HandlerDone("delete", "",
             delete_motorcycle(dalCollection, up, collection, gui.plate), up2)
    /\ UNCHANGED <<uniqueIndex, dalCollection, last, sessions, ocr, cam>>

AddLicenseClick == AddLicenseHandler(FALSE)

FlagBlacklistedClick == FlagBlacklistedHandler(FALSE)

FlagExpiredClick == FlagExpiredHandler(FALSE)

FlagViolationsClick == FlagViolationsHandler(FALSE)

DeleteLicenseClick == DeleteLicenseHandler(FALSE)

\* One application, its buttons clicked as the page shows them.
NextGui ==
    \/ Construct
    \/ GuiProcessAndDisplay
    \/ GuiStartOver
    \/ AddLicenseClick
    \/ FlagBlacklistedClick
    \/ FlagExpiredClick
    \/ FlagViolationsClick
    \/ DeleteLicenseClick

SpecGui == Init /\ [][NextGui]_vars

\* The images that empty the plate field and one that fills it.
LateImages ==
    {<<"ClientRequestException", <<>> >>, <<"result", <<PlateBlock>> >>,
     <<"result", <<BlankBlock>> >>}

LateProcessAndDisplay == ProcessAndDisplayOf(LateImages)

AddLicenseEvent == AddLicenseHandler(TRUE)

FlagBlacklistedEvent == FlagBlacklistedHandler(TRUE)

FlagExpiredEvent == FlagExpiredHandler(TRUE)

FlagViolationsEvent == FlagViolationsHandler(TRUE)

DeleteLicenseEvent == DeleteLicenseHandler(TRUE)

\* One application, a click event handled whatever the page shows by then.
NextGuiLate ==
    \/ Construct
    \/ LateProcessAndDisplay
    \/ GuiStartOver
    \/ AddLicenseEvent
    \/ FlagBlacklistedEvent
    \/ FlagExpiredEvent
    \/ FlagViolationsEvent
    \/ DeleteLicenseEvent

SpecGuiLate == Init /\ [][NextGuiLate]_vars

TypeOK ==
    /\ collection \in Seq(Docs) /\ Len(collection) <= MaxDocs
    /\ uniqueIndex \in BOOLEAN
    /\ dalCollection \in {"unset", "coll", "None"}
    /\ last.before \in Seq(Docs)
    /\ last.flags = <<>> \/ \A k \in 1..3 : last.flags[k] \in FlagArgs
    /\ last.ret \in {"none", "True", "False", "None", "document", "raised"}

\* ------------------------------------------------------------ the claims
\* The calls that write to the store.
Mutating == {"insert", "setFlag", "clear", "delete"}

\* The record of the plate of the last call before and after the call, as
\* find_one returns it (<<>> for None).
RecordBefore == find_one(last.before, last.plate_number)
RecordNow == find_one(collection, last.plate_number)

\* C1: the store holds at most one record per plate_number, whatever calls
\* were made.
C1_OneRecordPerPlate ==
    \A p \in Plates : Cardinality(Matches(collection, p)) <= 1

\* C2: an insertion of a plate with no record, reaching the server, reports
\* success, and find_motorcycle then returns a record with that plate_number
\* and region and each status as supplied, False where it was left out.
C2_InsertAbsentThenFind ==
    (last.op = "insert" /\ last.reached /\ RecordBefore = <<>>) =>
        /\ last.ret = "True"
        /\ LET f == find_motorcycle("coll", TRUE, collection, last.plate_number) IN
           /\ f.ret = "document"
           /\ f.found[1].plate_number = last.plate_number
           /\ f.found[1].region = last.region
           /\ f.found[1].blacklisted = (last.flags[1] = "True")
           /\ f.found[1].expired = (last.flags[2] = "True")
           /\ f.found[1].violations = (last.flags[3] = "True")

C2_Witness ==
    /\ last.op = "insert" /\ last.reached /\ RecordBefore = <<>>
    /\ last.plate_number = "PH5678" /\ last.region = "Calabarzon"
    /\ last.flags = <<"omitted", "omitted", "True">>
    /\ last.ret = "True" /\ Len(collection) = 2

\* C3: an insertion of a plate that already has a record reports the
\* duplicate outcome and leaves the collection as it was.
C3_InsertExistingRejected ==
    (last.op = "insert" /\ last.reached /\ RecordBefore # <<>>) =>
        /\ last.branch = "duplicate" /\ last.ret = "False"
        /\ collection = last.before

\* C4: update_*_status on an existing plate reports updated; afterwards the
\* named status is True and the other two statuses, region and plate_number
\* of the plate's record are as before the call.
C4_SetFlagFrame ==
    (last.op = "setFlag" /\ last.reached /\ RecordBefore # <<>>) =>
        /\ last.ret = "True" /\ last.branch = "updated"
        /\ RecordNow # <<>>
        /\ RecordNow[1][last.field] = TRUE
        /\ \A f \in (DOMAIN RecordBefore[1]) \ {last.field} :
               RecordNow[1][f] = RecordBefore[1][f]

C4_Witness ==
    /\ last.op = "setFlag" /\ last.reached /\ RecordBefore # <<>>
    /\ last.field = "expired"
    /\ RecordBefore[1].blacklisted /\ ~RecordBefore[1].expired
    /\ RecordNow[1].expired /\ last.ret = "True"

\* C5: after update_*_status on an existing plate, the same call made again
\* changes nothing and still reports updated; and a call that found the
\* status already True reported updated and left the collection as it was.
C5_SetFlagIdempotent ==
    (last.op = "setFlag" /\ last.reached /\ RecordBefore # <<>>) =>
        /\ LET again == update_status_flag("coll", TRUE, collection,
                                           last.plate_number, last.field, TRUE) IN
           /\ again.coll = collection
           /\ again.ret = "True" /\ again.branch = "updated"
        /\ (RecordBefore[1][last.field] = TRUE =>
               last.ret = "True" /\ collection = last.before)

C5_Witness ==
    /\ last.op = "setFlag" /\ last.reached /\ RecordBefore # <<>>
    /\ RecordBefore[1][last.field] = TRUE
    /\ last.ret = "True" /\ collection = last.before

\* C6: update_*_status on a plate with no record reports not found and leaves
\* the collection as it was: no record for the plate is created.
C6_SetFlagAbsent ==
    (last.op = "setFlag" /\ last.reached /\ RecordBefore = <<>>) =>
        /\ last.ret = "False" /\ last.branch = "not_found"
        /\ collection = last.before
        /\ RecordNow = <<>>

C6_Witness ==
    /\ last.op = "setFlag" /\ last.reached /\ RecordBefore = <<>>
    /\ Len(last.before) > 0
    /\ last.ret = "False" /\ last.branch = "not_found"

\* C7: clear_all_statuses on an existing plate reports updated and leaves
\* blacklisted, expired and violations False with plate_number and region
\* as before; on a plate with no record it reports not found and changes
\* nothing.
C7_ClearAllStatuses ==
    (last.op = "clear" /\ last.reached) =>
        IF RecordBefore # <<>>
        THEN /\ last.ret = "True" /\ last.branch = "updated"
             /\ RecordNow # <<>>
             /\ \A f \in StatusFields : RecordNow[1][f] = FALSE
             /\ RecordNow[1].plate_number = RecordBefore[1].plate_number
             /\ RecordNow[1].region = RecordBefore[1].region
        ELSE /\ last.ret = "False" /\ last.branch = "not_found"
             /\ collection = last.before

C7_Witness ==
    /\ last.op = "clear" /\ last.reached /\ RecordBefore # <<>>
    /\ RecordBefore[1].blacklisted /\ RecordBefore[1].violations
    /\ ~RecordBefore[1].expired
    /\ last.ret = "True" /\ ~RecordNow[1].violations

\* C8: delete_motorcycle on an existing plate reports deleted and
\* find_motorcycle then reports absent; on a plate with no record it reports
\* not found, changes nothing and raises nothing.
C8_DeleteThenFindAbsent ==
    (last.op = "delete" /\ last.reached) =>
        IF RecordBefore # <<>>
        THEN /\ last.ret = "True" /\ last.branch = "deleted"
             /\ find_motorcycle("coll", TRUE, collection, last.plate_number).ret = "None"
        ELSE /\ last.ret = "False" /\ last.branch = "not_found"
             /\ collection = last.before

\* The value each mutating call returns for its business rejection: an
\* insertion of a stored plate under the unique index, the other calls on a
\* plate that is not stored.
RejectionRet(op) ==
    LET d == motorcycle_doc("PH1234", "Metro Manila", FALSE, FALSE, FALSE) IN
    CASE op = "insert" ->
            insert_motorcycle("coll", TRUE, TRUE, <<d>>, "PH1234", "Bicol",
                              "omitted", "omitted", "omitted").ret
      [] op = "setFlag" -> update_status_flag("coll", TRUE, <<>>, "PH1234", "blacklisted", TRUE).ret
      [] op = "clear" -> clear_all_statuses("coll", TRUE, <<>>, "PH1234").ret
      [] op = "delete" -> delete_motorcycle("coll", TRUE, <<>>, "PH1234").ret

\* C9: a mutating call that ends in the store-unavailable or unexpected-error
\* outcome never returns the value the call returns for its business
\* rejection (duplicate key, not found).
C9_FailureDistinctFromRejection ==
    (last.op \in Mutating /\ last.branch \in {"error", "no_collection"}) =>
        last.ret # RejectionRet(last.op)

\* C10: find_motorcycle on a store that is unavailable (self.collection None,
\* or the server not answering) does not return the indicator it returns for
\* a plate that has no record.
C10_FindUnavailableNotAbsent ==
    (last.op = "find" /\ ~last.reached) =>
        last.ret # find_motorcycle("coll", TRUE, <<>>, last.plate_number).ret

\* C12: find_motorcycle is a pure read: whatever the plate and the store,
\* the call leaves the collection, document by document, as it found it.
C12_FindIsPureRead ==
    (last.op = "find") => collection = last.before

C12_Witness ==
    /\ last.op = "find" /\ last.reached
    /\ last.ret = "document" /\ last.found[1].violations
    /\ Len(collection) = 2 /\ collection = last.before

\* coll is before with one document taken out.
RemovedOne(before, coll) ==
    \E k \in DOMAIN before :
        coll = SubSeq(before, 1, k - 1) \o SubSeq(before, k + 1, Len(before))

\* C13: plate_number and region of a record never change while the record
\* is stored: an insertion stores the region it was given, every call but a
\* deletion keeps each stored document's plate_number and region, and a
\* deletion leaves the documents it does not remove as they were.
C13_PlateAndRegionImmutable ==
    /\ (last.op \in {"insert", "setFlag", "clear", "find"}) =>
          /\ Len(collection) >= Len(last.before)
          /\ \A i \in DOMAIN last.before :
                /\ collection[i].plate_number = last.before[i].plate_number
                /\ collection[i].region = last.before[i].region
    /\ (last.op = "insert" /\ last.ret = "True") =>
          /\ Len(collection) = Len(last.before) + 1
          /\ collection[Len(collection)].plate_number = last.plate_number
          /\ collection[Len(collection)].region = last.region
    /\ (last.op = "delete") =>
          collection = last.before \/ RemovedOne(last.before, collection)

C13_Witness ==
    /\ last.op = "clear" /\ last.reached /\ last.ret = "True"
    /\ RecordBefore # <<>> /\ RecordBefore[1].region = "Bicol"
    /\ RecordBefore[1].expired
    /\ RecordNow[1].region = "Bicol" /\ RecordNow[1].plate_number = "PH1234"

\* The statuses in which document b differs from document a.
ChangedStatuses(a, b) == {f \in StatusFields : a[f] # b[f]}

\* C14: a call changes the statuses of a stored record only by making exactly
\* one status True with the other two as they were, or by leaving all three
\* False; a deletion changes no status of the documents it leaves.
C14_FlagChangesAreSetOneOrClearAll ==
    /\ (last.op \in {"insert", "setFlag", "clear", "find"}) =>
          \A i \in DOMAIN last.before :
              i \in DOMAIN collection /\
              LET a == last.before[i]
                  b == collection[i]
              IN  ChangedStatuses(a, b) # {} =>
                    \/ \E f \in StatusFields : ChangedStatuses(a, b) = {f} /\ b[f] = TRUE
                    \/ \A f \in StatusFields : b[f] = FALSE
    /\ (last.op = "delete") =>
          collection = last.before \/ RemovedOne(last.before, collection)

C14_Witness ==
    /\ last.op = "clear" /\ last.reached /\ RecordBefore # <<>>
    /\ ~RecordBefore[1].blacklisted /\ RecordBefore[1].expired
    /\ RecordBefore[1].violations
    /\ \A f \in StatusFields : RecordNow[1][f] = FALSE

\* The update_*_status method of a status field, on a store that answers.
SetFlag(coll, p, f) ==
    CASE f = "blacklisted" -> update_blacklisted_status("coll", TRUE, coll, p).coll
      [] f = "expired" -> update_expired_status("coll", TRUE, coll, p).coll
      [] f = "violations" -> update_violations_status("coll", TRUE, coll, p).coll

\* The store after update_*_status for every status of S, one after another.
RECURSIVE SetFlags(_, _, _)
SetFlags(coll, p, S) ==
    IF S = {} THEN coll
    ELSE LET f == CHOOSE g \in S : TRUE IN SetFlags(SetFlag(coll, p, f), p, S \ {f})

\* C15: the three statuses are independent: from every stored record each of
\* the 8 combinations is reached by clear_all_statuses followed by
\* update_*_status calls, and update_*_status for one status leaves the
\* other two as they are.
C15_FlagsIndependent ==
    \A p \in Plates :
        find_one(collection, p) # <<>> =>
            /\ \A S \in SUBSET StatusFields :
                   LET cleared == clear_all_statuses("coll", TRUE, collection, p).coll
                       r == find_one(SetFlags(cleared, p, S), p)[1]
                   IN  \A f \in StatusFields : r[f] = (f \in S)
            /\ \A f \in StatusFields :
                   LET r0 == find_one(collection, p)[1]
                       r1 == find_one(SetFlag(collection, p, f), p)[1]
                   IN  \A g \in StatusFields \ {f} : r1[g] = r0[g]

C15_Witness ==
    /\ last.op = "setFlag" /\ last.reached /\ last.field = "violations"
    /\ RecordBefore # <<>> /\ ~RecordBefore[1].violations
    /\ \A f \in StatusFields : RecordNow[1][f] = TRUE

\* C11: when two sessions have each issued an insertion of the same plate
\* and both reached the server, the store holds exactly one record of that
\* plate and at most one of the two calls reported success.
C11_ConcurrentInsertsOneRecord ==
    \A s \in Sessions, t \in Sessions :
        (/\ s # t
         /\ sessions[s].ins # <<>> /\ sessions[t].ins # <<>>
         /\ sessions[s].ins[1].reached /\ sessions[t].ins[1].reached
         /\ sessions[s].ins[1].plate_number = sessions[t].ins[1].plate_number) =>
            /\ Cardinality(Matches(collection, sessions[s].ins[1].plate_number)) = 1
            /\ ~(sessions[s].ins[1].ret = "True" /\ sessions[t].ins[1].ret = "True")

\* C16: no find_motorcycle of one session returns the record of a plate with
\* some statuses already written by another session's clear_all_statuses
\* and a status that call has still to write read as True.
C16_ClearIsOneWrite ==
    \A r \in Sessions :
        sessions[r].obs # <<>> =>
            LET o == sessions[r].obs[1] IN
            ~(o.written # {} /\ \E f \in o.pending : o.doc[f] = TRUE)

C16_Witness ==
    \E r \in Sessions, w \in Sessions :
        /\ r # w
        /\ sessions[r].obs # <<>>
        /\ sessions[r].obs[1].doc.blacklisted /\ sessions[r].obs[1].doc.violations
        /\ sessions[r].obs[1].pending = StatusFields
        /\ sessions[w].pc = "idle"
        /\ \A f \in StatusFields :
               find_one(collection, sessions[w].plate_number)[1][f] = FALSE

\* C17: an insert_motorcycle call with the empty plate_number leaves the
\* collection as it was and does not report success.
C17_EmptyPlateNotPersisted ==
    (last.op = "insert" /\ last.plate_number = "") =>
        /\ collection = last.before
        /\ last.ret # "True"

\* C19: when the provider returns fewer than two fragments, the field with
\* no fragment is the empty string: with one fragment region is "" and the
\* plate number is that fragment's (stripped) text; with no fragment both
\* plate number and region are "".
C19_FewerThanTwoFragments ==
    (/\ ocr.pc = "shown"
     /\ ocr.response \in {"result", "no_result"}
     /\ Len(ocr.blocks) < 2) =>
        /\ ocr.region = << <<>> >>
        /\ ocr.plate_number = IF Len(ocr.blocks) = 1
                              THEN <<strip(ocr.blocks[1].words)>>
                              ELSE << <<>> >>

Orders(n) ==
    {p \in [1..n -> 1..n] : \A i \in 1..n : \E k \in 1..n : p[k] = i}

\* C20: when the provider returns two or more fragments, all_locations is
\* the fragments' locations in an order of non-decreasing y, the plate
\* number is the stripped text of the first fragment of that order and the
\* region that of the second, and the call on those two fragments alone
\* returns the same plate number and region.
C20_TwoOrMoreFragments ==
    (/\ ocr.pc = "shown"
     /\ ocr.response = "result"
     /\ Len(ocr.blocks) >= 2) =>
        /\ ocr.error = "None"
        /\ ocr.all_locations # <<>>
        /\ LET n == Len(ocr.blocks)
               locs == ocr.all_locations[1]
           IN
           /\ Len(locs) = n
           /\ \A k \in 1..(n - 1) : locs[k][2] <= locs[k + 1][2]
           /\ \E p \in Orders(n) :
                /\ \A k \in 1..n : locs[k] = ocr.blocks[p[k]].location
                /\ ocr.plate_number = <<strip(ocr.blocks[p[1]].words)>>
                /\ ocr.region = <<strip(ocr.blocks[p[2]].words)>>
                /\ LET two == get_ocr_result_with_boxes(
                                  "result", <<ocr.blocks[p[1]], ocr.blocks[p[2]]>>)
                   IN /\ two.plate_number = ocr.plate_number
                      /\ two.region = ocr.region

C20_Witness ==
    /\ ocr.pc = "shown"
    /\ ocr.response = "result"
    /\ Len(ocr.blocks) = 3
    /\ ocr.blocks[1].location[2] > ocr.blocks[3].location[2]
    /\ ocr.blocks[1].location[1] < ocr.blocks[3].location[1]
    /\ ocr.blocks[3].words = <<" ", "M", " ">>
    /\ ocr.plate_number = << <<"M">> >>
    /\ ocr.region = << <<"A", " ", "B">> >>
    /\ ocr.all_locations[1][1] = ocr.blocks[3].location

\* C21: a MotorcycleDAL that accepts operations (its collection is set) has
\* the unique index on plate_number in place on the server.
C21_UsableDalHasIndex ==
    dalCollection = "coll" => uniqueIndex

\* The documents of plate q, in the collection's order.
RecordsOf(coll, q) == SelectSeq(coll, LAMBDA d : d.plate_number = q)

\* C27: a call on plate P leaves the documents of every other plate as they
\* were, and the number of documents changes only by +1 on an insertion that
\* returned True and by -1 on a deletion that returned True.
C27_OtherPlatesAndCount ==
    (last.op # "none") =>
        /\ \A q \in Plates \ {last.plate_number} :
               RecordsOf(collection, q) = RecordsOf(last.before, q)
        /\ Len(collection) =
               Len(last.before)
               + (IF last.op = "insert" /\ last.ret = "True" THEN 1 ELSE 0)
               - (IF last.op = "delete" /\ last.ret = "True" THEN 1 ELSE 0)

C27_Witness ==
    /\ last.op = "delete" /\ last.ret = "True" /\ last.plate_number = "PH5678"
    /\ Len(last.before) = 2 /\ last.before[1].plate_number = "PH1234"
    /\ last.before[1].violations
    /\ collection = <<last.before[1]>>

C24_OnePreviewThread ==
    Cardinality(Running(cam.threads)) <= 1

\* C25: every capture_frame_loop thread that was running at a Capture click
\* or at the disconnect ends afterwards and releases the camera.
C25_AskedThreadsExit ==
    \A t \in Threads : (t \in cam.asked) ~> (cam.threads[t] = "released")

\* C26: on_process_camera_image runs OCR only on a capture.png that a
\* Capture click wrote after the last entry to the camera page, Retake or
\* Start over.
C26_ProcessOnlyFreshCapture ==
    cam.processed # "stale"

\* The buttons show the store for the plate in the field: Add to DB enabled
\* exactly without a record, Delete exactly with one, each flag button exactly
\* with a record whose status is False.
ButtonsMatchStore ==
    LET rec == find_one(collection, gui.plate) IN
    /\ gui.visible
    /\ ~gui.add_disabled <=> rec = <<>>
    /\ ~gui.delete_disabled <=> rec # <<>>
    /\ ~gui.blacklist_disabled <=> (rec # <<>> /\ ~rec[1].blacklisted)
    /\ ~gui.expire_disabled <=> (rec # <<>> /\ ~rec[1].expired)
    /\ ~gui.violation_disabled <=> (rec # <<>> /\ ~rec[1].violations)

\* C22: with an OCR result shown whose plate is not empty, after the OCR call
\* and after every DB-button handler, the buttons match the store; and the
\* buttons issue insert_motorcycle only for a plate without a record and
\* update_*_status only for a status that is False.
C22_ButtonsMatchStore ==
    /\ (ocr.pc = "shown" /\ ocr.error = "None" /\ gui.plate # <<>>) => ButtonsMatchStore
    /\ (gui.issued # <<>> /\ gui.issued[1].called) =>
          /\ gui.issued[1].op = "insert" => ~gui.issued[1].existed
          /\ gui.issued[1].op = "setFlag" => ~gui.issued[1].was_set

\* The text in the plate field is the stripped text of a fragment of the OCR
\* call whose result is shown.
PlateIsFragmentText ==
    \E k \in DOMAIN gui.blocks : gui.plate = strip(gui.blocks[k].words)

\* C23: Add to DB is offered, and insert_motorcycle is issued, only for the
\* text of an OCR fragment; no record is stored under the no-text message.
C23_AddOnlyFragmentText ==
    /\ (gui.visible /\ ~gui.add_disabled) => PlateIsFragmentText
    /\ (gui.issued # <<>> /\ gui.issued[1].called /\ gui.issued[1].op = "insert") =>
          PlateIsFragmentText
    /\ \A k \in DOMAIN collection : collection[k].plate_number # NoTextFound

\* C29: a DB-button handler that finds the plate field empty (after Start
\* over, Retake or an OCR error) calls no DAL method and leaves the store
\* as it is.
C29_EmptyPlateNoStoreOperation ==
    (gui.issued # <<>> /\ gui.issued[1].plate = <<>>) =>
        /\ ~gui.issued[1].called
        /\ ~gui.issued[1].changed

C29_Witness ==
    /\ gui.error /\ gui.plate = <<>>
    /\ gui.issued # <<>> /\ gui.issued[1].op = "delete"
    /\ gui.issued[1].plate = <<>> /\ ~gui.issued[1].called
    /\ collection # <<>>

====
